---- MODULE Spec2Model ----
(***************************************************************************)
(* Model of process-feed.js (Reader Feed Processor): one run-to-completion *)
(* batch process that pages through a remote list, classifies every feed   *)
(* document, relocates the ones carrying the read marker and records the   *)
(* outcome in a persisted completion cache.  The remote service and the    *)
(* cache file are the environment; every other variable is program state.  *)
(***************************************************************************)
EXTENDS Integers, Sequences, FiniteSets, TLC

(* ------------------------------------------------------------------ *)
(* Bounds of the model                                                 *)
(* ------------------------------------------------------------------ *)
\* documents the classification worlds put in the feed
NumFeed == 3
\* entries the pagination worlds put in the feed
NumPaged == 5
\* entries the server returns per page
PageSize == 2
\* 429 answers the server gives in a row to one request
Max429 == 2
\* largest positive --limit value tried
MaxLimit == 2
\* runs the scheduler makes in a row
MaxRuns == 2

(* ------------------------------------------------------------------ *)
(* Program constants                                                   *)
(* ------------------------------------------------------------------ *)
DELAY_MS == 3000
\* the marker is a fixed literal; two characters stand for its text
READ_MARKER == <<"#", "R">>
\* `response.headers.get('Retry-After') || 60`
DefaultRetryAfter == 60

(* ------------------------------------------------------------------ *)
(* JavaScript values                                                   *)
(* ------------------------------------------------------------------ *)
\* an optional value: {} is null/undefined, {v} is the value v
None == {}
Some(v) == {v}
Val(o) == CHOOSE v \in o : TRUE

\* truthiness of an optional number: null, undefined, NaN and 0 are falsy
Truthy(o) == o # None /\ o # Some(0)

\* `s || ''` for an optional string (the empty string is falsy as well)
OrEmpty(o) == IF o = None THEN <<>> ELSE Val(o)

\* String.prototype.includes
Includes(s, t) ==
  \E i \in 0..(Len(s) - Len(t)) : SubSeq(s, i + 1, i + Len(t)) = t

Min(a, b) == IF a <= b THEN a ELSE b
Max(a, b) == IF a >= b THEN a ELSE b

\* Array.prototype.slice(0, n): a negative n counts from the end
Slice0(s, n) ==
  IF n >= 0 THEN SubSeq(s, 1, Min(n, Len(s)))
  ELSE SubSeq(s, 1, Max(Len(s) + n, 0))

(* ------------------------------------------------------------------ *)
(* State                                                               *)
(* ------------------------------------------------------------------ *)
VARIABLES
  dryRun,       \* --dry-run
  noCache,      \* --no-cache
  archiveLater, \* --archive-later
  limit,        \* --limit=N parsed: None when the flag is absent
  sinceDays,    \* --since=N parsed: None when the flag is absent
  file,         \* the persisted cache file CACHE_FILE
  file0,        \* the contents of CACHE_FILE when this process started
  cache,        \* the in-memory cache object
  stats,        \* the run statistics
  archived,     \* the counter local to archiveAllLater
  pc,           \* position of the single control flow
  phase,        \* which routine is running: "archive" or "feed"
  location,     \* fetchDocuments: the partition being fetched
  maxDocs,      \* fetchDocuments: the early-stop count
  documents,    \* the list being fetched, then the list being iterated
  cursor,       \* fetchDocuments: the page cursor
  idx,          \* position of the for-of loop in documents
  req,          \* endpoint and options of the apiRequest call in progress
  attempt,      \* that call's requests answered 429 so far, each with its wait
  log,          \* this run's delays and requests in order; a request answered
                \* 429 is kept in attempt, while its call lasts, instead
  server,       \* the remote store: id -> document
  order,        \* the remote store's listing order
  handled,      \* feed documents whose handling completed in this run
  run,          \* number of the current run
  prev          \* what the previous run left behind

flags == <<dryRun, noCache, archiveLater, limit, sinceDays, file0>>
fetchVars == <<location, maxDocs, cursor>>
vars == <<dryRun, noCache, archiveLater, limit, sinceDays, file, file0, cache, stats,
          archived, pc, phase, location, maxDocs, documents, cursor, idx, req,
          attempt, log, server, order, handled, run, prev>>

(* ------------------------------------------------------------------ *)
(* Cache functions                                                     *)
(* ------------------------------------------------------------------ *)
EmptyProcessed == [id \in {} |-> [promoted |-> FALSE]]

\* `{ processed: {} }`
EmptyCache == [hasProcessed |-> TRUE, processed |-> EmptyProcessed]

\* the file does not exist
MissingFile == [kind |-> "missing", hasProcessed |-> FALSE, processed |-> EmptyProcessed]
\* the file exists and JSON.parse throws on it
GarbageFile == [kind |-> "garbage", hasProcessed |-> FALSE, processed |-> EmptyProcessed]
\* the file parses to a value that has no `processed` member, such as `{}`
NoProcessedFile == [kind |-> "json", hasProcessed |-> FALSE, processed |-> EmptyProcessed]
\* JSON.stringify(cache, null, 2) as file contents
JsonFile(c) == [kind |-> "json", hasProcessed |-> c.hasProcessed, processed |-> c.processed]

\* JSON.parse(readFileSync(CACHE_FILE)): the parsed value is returned as it is
ParseFile(f) == [hasProcessed |-> f.hasProcessed, processed |-> f.processed]

\* a load that reads the file whatever the flags are
loadCacheAnyway(f, nc) ==
  IF f.kind \in {"missing", "garbage"} THEN EmptyCache ELSE ParseFile(f)

\* a load that never reads the file
loadCacheEmpty(f, nc) == EmptyCache

loadCache(f, nc) ==
  IF nc \/ f.kind = "missing" THEN EmptyCache
  ELSE IF f.kind = "garbage" THEN EmptyCache
  ELSE ParseFile(f)

\* a save that forgets the dry-run guard
saveCacheNoDryGuard(f, c, dr, nc) ==
  IF nc THEN f ELSE JsonFile(c)

saveCache(f, c, dr, nc) ==
  IF dr \/ nc THEN f ELSE JsonFile(c)

\* a lookup that never finds an entry
CacheHitNever(c, id) == FALSE

\* `cache.processed[docId]` as a condition: every entry the program writes is
\* an object, hence truthy
CacheHit(c, id) == id \in DOMAIN c.processed

CachePut(c, id, p) ==
  [c EXCEPT !.processed =
     [k \in DOMAIN c.processed \cup {id} |->
        IF k = id THEN [promoted |-> p] ELSE c.processed[k]]]

(* ------------------------------------------------------------------ *)
(* Statistics                                                          *)
(* ------------------------------------------------------------------ *)
InitStats ==
  [total |-> 0, promoted |-> <<>>, skippedNoRead |-> <<>>,
   skippedNoSummary |-> <<>>, skippedCached |-> 0, skippedTooOld |-> 0,
   archived |-> 0]

(* ------------------------------------------------------------------ *)
(* Classifier                                                          *)
(* ------------------------------------------------------------------ *)
hasReadMarker(doc) ==
  Includes(OrEmpty(doc.summary), READ_MARKER) \/ Includes(OrEmpty(doc.notes), READ_MARKER)

\* a classifier that takes notes for an annotation as well
hasSummaryOrNotes(doc) == Len(OrEmpty(doc.summary)) > 0 \/ Len(OrEmpty(doc.notes)) > 0

hasSummary(doc) == Len(OrEmpty(doc.summary)) > 0

\* doc.age is the age in days of `doc.created_at || doc.updated_at`; None is a
\* document without either, whose Invalid Date compares false
isWithinDays(doc, days) ==
  IF ~Truthy(days) THEN TRUE
  ELSE doc.age # None /\ Val(doc.age) <= Val(days)

\* `doc.title || doc.url || 'ID: ' + doc.id`: the documents of the model carry
\* neither title nor url
Title(doc) == <<"ID", doc.id>>

(* ------------------------------------------------------------------ *)
(* The remote store                                                    *)
(* ------------------------------------------------------------------ *)
Snapshot(id) ==
  [id |-> id, category |-> server[id].category, summary |-> server[id].summary,
   notes |-> server[id].notes, age |-> server[id].age]

\* ids the list endpoint returns for a partition, in server order
Listing(loc) == SelectSeq(order, LAMBDA id : server[id].location = loc)

\* the cursor is the number of the page it stands for; None is the first page
PageNo(c) == IF c = None THEN 1 ELSE Val(c)

PageResults(loc, c) ==
  LET l == Listing(loc)
      from == (PageNo(c) - 1) * PageSize + 1
      to == Min(PageNo(c) * PageSize, Len(l))
  IN [i \in 1..(IF to >= from THEN to - from + 1 ELSE 0) |-> Snapshot(l[from + i - 1])]

PageNextCursor(loc, c) ==
  IF PageNo(c) * PageSize < Len(Listing(loc)) THEN Some(PageNo(c) + 1) ELSE None

(* ------------------------------------------------------------------ *)
(* The log of requests and delays                                      *)
(* ------------------------------------------------------------------ *)
\* a request sent and the status (and Retry-After header) it was answered with
ReqEv(r, status, h) ==
  [ev |-> "req", endpoint |-> r, status |-> status, retryAfter |-> h, ms |-> 0]
\* a delay awaited
DelayEv(ms) ==
  [ev |-> "delay", endpoint |-> <<>>, status |-> 0, retryAfter |-> None, ms |-> ms]

ListEndpoint(loc, c) == <<"list", loc, c>>
UpdateEndpoint(id, loc) == <<"update", id, loc>>

Count(s, P(_)) == Len(SelectSeq(s, P))
Is429(e) == e.ev = "req" /\ e.status = 429

(* ------------------------------------------------------------------ *)
(* apiRequest                                                          *)
(* ------------------------------------------------------------------ *)
\* the Retry-After headers the server sends with a 429: none, or "5"
RetryAfterHeaders == {None, Some(<<"5">>)}

\* a string of digits as a number (JavaScript's `*` converts its operands)
DigitValue(ch) == CASE ch = "0" -> 0 [] ch = "5" -> 5
RECURSIVE ToNumber(_)
ToNumber(str) ==
  IF str = <<>> THEN 0
  ELSE 10 * ToNumber(SubSeq(str, 1, Len(str) - 1)) + DigitValue(str[Len(str)])

\* a backoff that ignores the header
RetryAfterMsFixed(h) == DefaultRetryAfter * 1000

\* `response.headers.get('Retry-After') || 60`, then `retryAfter * 1000`
RetryAfterMs(h) ==
  IF h = None \/ Val(h) = <<>> THEN DefaultRetryAfter * 1000
  ELSE ToNumber(Val(h)) * 1000

\* a new apiRequest call: the first fetch() of r is about to be sent
Call(r, lg) ==
  /\ req' = r
  /\ attempt' = <<>>
  /\ log' = lg
  /\ pc' = "api"

\* fetch() is answered 429: wait, then the same call again (lines 85-90)
RateLimited ==
  /\ pc = "api"
  /\ Count(attempt, Is429) < Max429
  /\ \E h \in RetryAfterHeaders :
       attempt' = attempt \o <<ReqEv(req, 429, h), DelayEv(RetryAfterMs(h))>>
  /\ UNCHANGED <<flags, file, cache, stats, archived, pc, phase, fetchVars,
                 documents, idx, req, log, server, order, handled, run, prev>>

\* fetch() is answered with another non-2xx status: apiRequest throws, nothing
\* up to main catches it, main prints the message and exits with status 1
ApiError ==
  /\ pc = "api"
  /\ log' = Append(log, ReqEv(req, 500, None))
  /\ attempt' = <<>>
  /\ pc' = "exit1"
  /\ UNCHANGED <<flags, file, cache, stats, archived, phase, fetchVars,
                 documents, idx, req, server, order, handled, run, prev>>

(* ------------------------------------------------------------------ *)
(* fetchDocuments                                                      *)
(* ------------------------------------------------------------------ *)
IsDocument(doc) == doc.category # "highlight" /\ doc.category # "note"

\* fetchDocuments(loc, max) up to its first request
StartFetch(ph, loc, max, lg) ==
  /\ phase' = ph
  /\ location' = loc
  /\ maxDocs' = max
  /\ documents' = <<>>
  /\ cursor' = None
  /\ Call(ListEndpoint(loc, None), lg)

\* `documents` after the page answered to the pending list request is pushed
Fetched == documents \o SelectSeq(PageResults(location, cursor), IsDocument)

\* an early stop that needs more than maxDocs documents
FetchEndsStrict ==
  \/ Truthy(maxDocs) /\ Len(Fetched) > Val(maxDocs)
  \/ PageNextCursor(location, cursor) = None

\* the do-while loop ends after this page: the early stop, or no cursor
FetchEnds ==
  \/ Truthy(maxDocs) /\ Len(Fetched) >= Val(maxDocs)
  \/ PageNextCursor(location, cursor) = None

ListAnswered ==
  /\ pc = "api"
  /\ req[1] = "list"

\* a page is answered 2xx and another page follows: delay, next request
FetchMore ==
  /\ ListAnswered
  /\ ~FetchEnds
  /\ documents' = Fetched
  /\ cursor' = PageNextCursor(location, cursor)
  /\ Call(ListEndpoint(location, PageNextCursor(location, cursor)),
          log \o <<ReqEv(req, 200, None), DelayEv(DELAY_MS)>>)
  /\ UNCHANGED <<flags, file, cache, stats, archived, phase, location, maxDocs,
                 idx, server, order, handled, run, prev>>

(* ------------------------------------------------------------------ *)
(* processFeed                                                         *)
(* ------------------------------------------------------------------ *)
\* processFeed up to the first request of its fetch
StartFeed(lg) == StartFetch("feed", "feed", limit, lg)

\* a processFeed that forgets to truncate
Untruncated(l) == l

\* `documents` of processFeed after the fetch returned list l
Truncated(l) == IF Truthy(limit) THEN Slice0(l, Val(limit)) ELSE l

\* the last page of the feed fetch is answered 2xx: stats.total, the
\* truncation to limit, and either the early return or the loop's start
FeedFetched ==
  /\ ListAnswered
  /\ phase = "feed"
  /\ FetchEnds
  /\ log' = Append(log, ReqEv(req, 200, None))
  /\ cursor' = PageNextCursor(location, cursor)
  /\ stats' = [stats EXCEPT !.total = Len(Fetched)]
  /\ documents' = Truncated(Fetched)
  /\ idx' = 1
  /\ pc' = IF Len(Truncated(Fetched)) = 0 THEN "exit0" ELSE "feed_loop"
  /\ attempt' = <<>>
  /\ UNCHANGED <<flags, file, cache, archived, phase, location, maxDocs, req,
                 server, order, handled, run, prev>>

\* a decision sequence that consults the cache before the age window
DecideCacheFirst(doc) ==
  IF ~cache.hasProcessed THEN "TypeError"
  ELSE IF CacheHit(cache, doc.id) THEN "Cached"
  ELSE IF Truthy(sinceDays) /\ ~isWithinDays(doc, sinceDays) THEN "TooOld"
  ELSE IF ~hasSummary(doc) THEN "Unannotated"
  ELSE IF hasReadMarker(doc) THEN "Promoted"
  ELSE "NoMarker"

\* a decision sequence that does not consult the cache
DecideWithoutCache(doc) ==
  IF Truthy(sinceDays) /\ ~isWithinDays(doc, sinceDays) THEN "TooOld"
  ELSE IF ~hasSummary(doc) THEN "Unannotated"
  ELSE IF hasReadMarker(doc) THEN "Promoted"
  ELSE "NoMarker"

\* the decision sequence of the loop body for one document (lines 224-260)
Decide(doc) ==
  IF Truthy(sinceDays) /\ ~isWithinDays(doc, sinceDays) THEN "TooOld"
  ELSE IF ~cache.hasProcessed THEN "TypeError"
  ELSE IF CacheHit(cache, doc.id) THEN "Cached"
  ELSE IF ~hasSummary(doc) THEN "Unannotated"
  ELSE IF hasReadMarker(doc) THEN "Promoted"
  ELSE "NoMarker"

\* a loop that saves the cache after every document
HandledSaving(outcome, c, st, lg, from) ==
  /\ cache' = c
  /\ stats' = st
  /\ log' = lg
  /\ handled' = Append(handled,
       [doc |-> documents[idx], outcome |-> outcome,
        before |-> cache.processed, after |-> c.processed,
        logFrom |-> from, logTo |-> Len(lg)])
  /\ idx' = IF idx < Len(documents) THEN idx + 1 ELSE idx
  /\ pc' = IF idx < Len(documents) THEN "feed_loop" ELSE "exit0"
  /\ file' = saveCache(file, c, dryRun, noCache)
  /\ attempt' = <<>>
  /\ UNCHANGED <<flags, archived, phase, fetchVars, documents, req, order, run, prev>>

\* the handling of documents[idx] is complete with the cache and statistics
\* c and st: the next iteration, or after the last one saveCache and the
\* summary, and main returns
Handled(outcome, c, st, lg, from) ==
  /\ cache' = c
  /\ stats' = st
  /\ log' = lg
  /\ handled' = Append(handled,
       [doc |-> documents[idx], outcome |-> outcome,
        before |-> cache.processed, after |-> c.processed,
        logFrom |-> from, logTo |-> Len(lg)])
  /\ IF idx < Len(documents)
     THEN /\ idx' = idx + 1
          /\ pc' = "feed_loop"
          /\ file' = file
     ELSE /\ idx' = idx
          /\ pc' = "exit0"
          /\ file' = saveCache(file, c, dryRun, noCache)
  /\ attempt' = <<>>
  /\ UNCHANGED <<flags, archived, phase, fetchVars, documents, req, order, run, prev>>

AtDoc(outcome) ==
  /\ pc = "feed_loop"
  /\ Decide(documents[idx]) = outcome

\* a loop that skips a document outside the window without counting it
FeedTooOldUncounted ==
  /\ AtDoc("TooOld")
  /\ Handled("TooOld", cache, stats, log, Len(log))
  /\ UNCHANGED server

FeedTooOld ==
  /\ AtDoc("TooOld")
  /\ Handled("TooOld", cache, [stats EXCEPT !.skippedTooOld = @ + 1], log, Len(log))
  /\ UNCHANGED server

\* `cache.processed` is undefined: reading a property of it throws a
\* TypeError inside main's try block
FeedTypeError ==
  /\ AtDoc("TypeError")
  /\ pc' = "exit1"
  /\ UNCHANGED <<flags, file, cache, stats, archived, phase, fetchVars, documents,
                 idx, req, attempt, log, server, order, handled, run, prev>>

FeedCached ==
  /\ AtDoc("Cached")
  /\ Handled("Cached", cache, [stats EXCEPT !.skippedCached = @ + 1], log, Len(log))
  /\ UNCHANGED server

\* a loop that records the document without summary as seen
FeedNoSummaryCached ==
  /\ AtDoc("Unannotated")
  /\ Handled("Unannotated", CachePut(cache, documents[idx].id, FALSE),
             [stats EXCEPT !.skippedNoSummary = Append(@, Title(documents[idx]))],
             log, Len(log))
  /\ UNCHANGED server

FeedNoSummary ==
  /\ AtDoc("Unannotated")
  /\ Handled("Unannotated", cache,
             [stats EXCEPT !.skippedNoSummary = Append(@, Title(documents[idx]))],
             log, Len(log))
  /\ UNCHANGED server

FeedNoMarker ==
  /\ AtDoc("NoMarker")
  /\ Handled("NoMarker", CachePut(cache, documents[idx].id, FALSE),
             [stats EXCEPT !.skippedNoRead = Append(@, Title(documents[idx]))],
             log, Len(log))
  /\ UNCHANGED server

\* what follows the promotion's network step (lines 254-255)
Promote(lg, from) ==
  Handled("Promoted", CachePut(cache, documents[idx].id, TRUE),
          [stats EXCEPT !.promoted = Append(@, Title(documents[idx]))], lg, from)

FeedPromoteDry ==
  /\ AtDoc("Promoted")
  /\ dryRun
  /\ Promote(log, Len(log))
  /\ UNCHANGED server

\* a promotion that records the document before the PATCH is sent
FeedPromoteEager ==
  /\ AtDoc("Promoted")
  /\ ~dryRun
  /\ cache' = CachePut(cache, documents[idx].id, TRUE)
  /\ stats' = [stats EXCEPT !.promoted = Append(@, Title(documents[idx]))]
  /\ Call(UpdateEndpoint(documents[idx].id, "later"), Append(log, DelayEv(DELAY_MS)))
  /\ UNCHANGED <<flags, file, archived, phase, fetchVars, documents,
                 idx, server, order, handled, run, prev>>

\* live: the delay, then updateDocumentLocation(docId, 'later') is called
FeedPromoteLive ==
  /\ AtDoc("Promoted")
  /\ ~dryRun
  /\ Call(UpdateEndpoint(documents[idx].id, "later"), Append(log, DelayEv(DELAY_MS)))
  /\ UNCHANGED <<flags, file, cache, stats, archived, phase, fetchVars, documents,
                 idx, server, order, handled, run, prev>>

UpdateAnswered ==
  /\ pc = "api"
  /\ req[1] = "update"

\* the PATCH of the promotion is answered 2xx
FeedPatched ==
  /\ UpdateAnswered
  /\ phase = "feed"
  /\ server' = [server EXCEPT ![req[2]].location = req[3]]
  /\ Promote(Append(log, ReqEv(req, 200, None)), Len(log) - 1)

(* ------------------------------------------------------------------ *)
(* archiveAllLater                                                     *)
(* ------------------------------------------------------------------ *)
\* the last page of the sweep's fetch is answered 2xx: with nothing to
\* archive the sweep returns and processFeed starts
ArchiveFetched ==
  /\ ListAnswered
  /\ phase = "archive"
  /\ FetchEnds
  /\ archived' = 0
  /\ IF Len(Fetched) = 0
     THEN /\ StartFeed(Append(log, ReqEv(req, 200, None)))
          /\ idx' = idx
     ELSE /\ log' = Append(log, ReqEv(req, 200, None))
          /\ documents' = Fetched
          /\ cursor' = PageNextCursor(location, cursor)
          /\ idx' = 1
          /\ pc' = "archive_loop"
          /\ attempt' = <<>>
          /\ UNCHANGED <<phase, location, maxDocs, req>>
  /\ UNCHANGED <<flags, file, cache, stats, server, order, handled, run, prev>>

\* documents[idx] is archived: the next iteration, or the sweep returns and
\* processFeed starts
Archived(lg) ==
  /\ archived' = archived + 1
  /\ IF idx < Len(documents)
     THEN /\ idx' = idx + 1
          /\ pc' = "archive_loop"
          /\ log' = lg
          /\ attempt' = <<>>
          /\ UNCHANGED <<phase, fetchVars, documents, req>>
     ELSE /\ idx' = idx
          /\ StartFeed(lg)
  /\ UNCHANGED <<flags, file, cache, stats, order, handled, run, prev>>

ArchiveDry ==
  /\ pc = "archive_loop"
  /\ dryRun
  /\ Archived(log)
  /\ UNCHANGED server

\* a sweep that leaves out the documents the cache lists
ArchiveLiveUncached ==
  /\ pc = "archive_loop"
  /\ ~dryRun
  /\ IF CacheHit(cache, documents[idx].id)
     THEN Archived(log) /\ UNCHANGED server
     ELSE /\ Call(UpdateEndpoint(documents[idx].id, "archive"), Append(log, DelayEv(DELAY_MS)))
          /\ UNCHANGED <<flags, file, cache, stats, archived, phase, fetchVars, documents,
                         idx, server, order, handled, run, prev>>

ArchiveLive ==
  /\ pc = "archive_loop"
  /\ ~dryRun
  /\ Call(UpdateEndpoint(documents[idx].id, "archive"), Append(log, DelayEv(DELAY_MS)))
  /\ UNCHANGED <<flags, file, cache, stats, archived, phase, fetchVars, documents,
                 idx, server, order, handled, run, prev>>

\* the PATCH of the sweep is answered 2xx
ArchivePatched ==
  /\ UpdateAnswered
  /\ phase = "archive"
  /\ server' = [server EXCEPT ![req[2]].location = req[3]]
  /\ Archived(Append(log, ReqEv(req, 200, None)))

(* ------------------------------------------------------------------ *)
(* main                                                                *)
(* ------------------------------------------------------------------ *)
MainArchive ==
  /\ pc = "main"
  /\ archiveLater
  /\ StartFetch("archive", "later", None, log)
  /\ UNCHANGED <<flags, file, cache, stats, archived, idx, server, order,
                 handled, run, prev>>

MainFeed ==
  /\ pc = "main"
  /\ ~archiveLater
  /\ StartFeed(log)
  /\ UNCHANGED <<flags, file, cache, stats, archived, idx, server, order,
                 handled, run, prev>>

(* ------------------------------------------------------------------ *)
(* The next run                                                        *)
(* ------------------------------------------------------------------ *)
\* what the annotation process can leave on a document between two runs:
\* summary and notes
Rewrites ==
  { <<None, None>>, <<Some(<<"o", "k">>), None>>, <<Some(<<"o", "k">>), Some(READ_MARKER)>>,
    <<Some(<<"x", "#", "R">>), None>> }

\* the state a finished run leaves behind, kept for the runs after it
Left ==
  [exit |-> pc, cache |-> cache,
   handled |-> [i \in DOMAIN handled |->
                  [doc |-> handled[i].doc, outcome |-> handled[i].outcome,
                   before |-> handled[i].before, after |-> handled[i].after]]]

NoPrev == [exit |-> "none", cache |-> EmptyCache, handled |-> <<>>]

\* module initialisation of a new process: loadCache() and fresh statistics
Boot(f, nc) ==
  /\ cache = loadCache(f, nc)
  /\ stats = InitStats
  /\ archived = 0
  /\ pc = "main"
  /\ phase = "main"
  /\ location = "none"
  /\ maxDocs = None
  /\ documents = <<>>
  /\ cursor = None
  /\ idx = 1
  /\ req = <<>>
  /\ attempt = <<>>
  /\ log = <<>>
  /\ handled = <<>>

\* the scheduler invokes the program again with the same flags; meanwhile the
\* annotation process may have rewritten the summary and the notes of one
\* feed document
Restart ==
  /\ pc \in {"exit0", "exit1"}
  /\ run < MaxRuns
  /\ run' = run + 1
  /\ prev' = Left
  /\ file0' = file
  /\ \E id \in DOMAIN server :
       \E rw \in Rewrites \cup {<<server[id].summary, server[id].notes>>} :
         /\ server[id].location = "feed" \/ rw = <<server[id].summary, server[id].notes>>
         /\ server' = [server EXCEPT ![id].summary = rw[1], ![id].notes = rw[2]]
  /\ cache' = loadCache(file, noCache)
  /\ stats' = InitStats
  /\ archived' = 0
  /\ pc' = "main"
  /\ phase' = "main"
  /\ location' = "none"
  /\ maxDocs' = None
  /\ documents' = <<>>
  /\ cursor' = None
  /\ idx' = 1
  /\ req' = <<>>
  /\ attempt' = <<>>
  /\ log' = <<>>
  /\ handled' = <<>>
  /\ UNCHANGED <<dryRun, noCache, archiveLater, limit, sinceDays, file, order>>

(* ------------------------------------------------------------------ *)
(* Initial states                                                      *)
(* ------------------------------------------------------------------ *)
Marker == Some(READ_MARKER)

Doc(cat, sm, nt, age, loc) ==
  [category |-> cat, summary |-> sm, notes |-> nt, age |-> Some(age), location |-> loc]

\* the kinds of feed document the classification worlds are built from: see
\* KindList
LaterDoc == Doc("article", Some(<<"o", "k">>), None, 3, "later")

Iota(n) == [i \in 1..n |-> i]

KindList ==
  << Doc("article", None, Marker, 3, "feed"),
     Doc("article", Some(<<"x", "#", "R">>), None, 3, "feed"),
     Doc("article", Some(<<>>), None, 3, "feed"),
     Doc("article", Some(<<"o", "k">>), None, 3, "feed"),
     Doc("article", Some(<<"x", "#", "R">>), None, 10, "feed"),
     Doc("article", Some(<<"o", "k">>), Marker, 3, "feed"),
     Doc("article", None, None, 10, "feed"),
     Doc("article", Some(<<"R", "#">>), None, 3, "feed") >>

\* the kind at place i of the list, continued cyclically
KindAt(i) == KindList[((i - 1) % Len(KindList)) + 1]

\* a world: the documents ds in listing order, followed by one in Later
World(ds) ==
  [server |-> [i \in 1..(Len(ds) + 1) |-> IF i <= Len(ds) THEN ds[i] ELSE LaterDoc],
   order |-> Iota(Len(ds) + 1)]

\* classification worlds: NumFeed consecutive kinds of the list, from any
\* place of it, so that every kind stands at every position of the feed
ClassifyWorlds ==
  { World([i \in 1..NumFeed |-> KindAt(j + i - 1)]) : j \in 1..Len(KindList) }

\* pagination worlds: NumPaged feed entries, any of which may be an
\* annotation artifact (a highlight or a note) instead of a document
Artifact(i) == IF i % 2 = 1 THEN "highlight" ELSE "note"
PagedWorlds ==
  { World([i \in 1..NumPaged |->
            Doc(IF i \in arts THEN Artifact(i) ELSE "article",
                IF i % 2 = 1 THEN Some(<<"o", "k">>) ELSE Some(<<"#", "R">>),
                None, 3, "feed")]) : arts \in SUBSET (1..NumPaged) }

\* the values parseInt gives --limit=N and --since=N
LimitValues == {None, Some(0), Some(-1)} \cup {Some(n) : n \in 1..MaxLimit}
SinceValues == {None, Some(7)}

ClassifyFlags ==
  [dryRun : BOOLEAN, noCache : BOOLEAN, archiveLater : BOOLEAN,
   limit : {None, Some(1)}, sinceDays : SinceValues]

PagedFlags ==
  [dryRun : BOOLEAN, noCache : {FALSE}, archiveLater : BOOLEAN,
   limit : LimitValues, sinceDays : {None}]

\* cache files: absent, unparseable, without `processed`, and written by an
\* earlier run
CacheFiles ==
  {MissingFile, GarbageFile, NoProcessedFile, JsonFile(EmptyCache),
   JsonFile(CachePut(EmptyCache, 1, FALSE))}

InitWith(worlds, files, flagset) ==
  /\ \E w \in worlds : server = w.server /\ order = w.order
  /\ file \in files
  /\ file0 = file
  /\ \E fl \in flagset :
       /\ dryRun = fl.dryRun
       /\ noCache = fl.noCache
       /\ archiveLater = fl.archiveLater
       /\ limit = fl.limit
       /\ sinceDays = fl.sinceDays
  /\ Boot(file, noCache)
  /\ run = 1
  /\ prev = NoPrev

InitClassify == InitWith(ClassifyWorlds, CacheFiles, ClassifyFlags)
InitPaged == InitWith(PagedWorlds, {MissingFile}, PagedFlags)

\* sweep worlds: one marked document in the feed, and a Later partition that
\* is empty or holds two pages: documents, an old one and a highlight
LaterShelves ==
  { <<>>,
    << LaterDoc,
       Doc("highlight", Some(<<"o", "k">>), None, 3, "later"),
       Doc("article", Some(<<"x", "#", "R">>), None, 10, "later"),
       Doc("article", None, None, 3, "later") >> }

SweepWorlds ==
  { [server |-> <<KindAt(2)>> \o l, order |-> Iota(Len(l) + 1)] : l \in LaterShelves }

SweepFlags ==
  [dryRun : BOOLEAN, noCache : {FALSE}, archiveLater : {TRUE},
   limit : {None, Some(1)}, sinceDays : SinceValues]

\* the cache file of the sweep worlds may list the first document of Later
InitSweep ==
  InitWith(SweepWorlds, {MissingFile, JsonFile(CachePut(EmptyCache, 2, FALSE))}, SweepFlags)

\* worlds whose list is not consistent across pages: the first document of
\* the feed is listed a second time, on the second page
DupOrder(n) == <<1, 2, 1>> \o [i \in 1..(n - 2) |-> i + 2]
DupWorlds == { [server |-> w.server, order |-> DupOrder(Len(w.server))] : w \in ClassifyWorlds }

DupFlags ==
  [dryRun : BOOLEAN, noCache : BOOLEAN, archiveLater : {FALSE},
   limit : {None}, sinceDays : SinceValues]

InitDup == InitWith(DupWorlds, {MissingFile}, DupFlags)

Init == InitClassify \/ InitPaged \/ InitSweep \/ InitDup

OneRun ==
  \/ MainArchive
  \/ MainFeed
  \/ RateLimited
  \/ ApiError
  \/ FetchMore
  \/ FeedFetched
  \/ FeedTooOld
  \/ FeedTypeError
  \/ FeedCached
  \/ FeedNoSummary
  \/ FeedNoMarker
  \/ FeedPromoteDry
  \/ FeedPromoteLive
  \/ FeedPatched
  \/ ArchiveFetched
  \/ ArchiveDry
  \/ ArchiveLive
  \/ ArchivePatched

Next == OneRun

Spec == Init /\ [][Next]_vars

\* a sequence of runs, from fewer initial states
RunsFlags ==
  { [dryRun |-> d, noCache |-> FALSE, archiveLater |-> FALSE, limit |-> l, sinceDays |-> sd] :
      d \in BOOLEAN, l \in {None, Some(1)}, sd \in SinceValues }
    \cup
  { [dryRun |-> d, noCache |-> nc, archiveLater |-> TRUE, limit |-> None, sinceDays |-> None] :
      d \in BOOLEAN, nc \in BOOLEAN }

LiveFlags ==
  { [dryRun |-> FALSE, noCache |-> FALSE, archiveLater |-> FALSE, limit |-> None,
     sinceDays |-> None] }

InitRuns ==
  \/ InitWith(ClassifyWorlds, {MissingFile}, RunsFlags)
  \/ InitWith(ClassifyWorlds, {NoProcessedFile}, LiveFlags)
  \/ InitWith(DupWorlds, {MissingFile}, LiveFlags)

NextRuns == OneRun \/ Restart

SpecRuns == InitRuns /\ [][NextRuns]_vars

(* ------------------------------------------------------------------ *)
(* The same run over another cache file                                *)
(* ------------------------------------------------------------------ *)
\* everything a finished run leaves behind, its requests included
LeftAll ==
  [exit |-> pc, cache |-> cache, handled |-> handled, log |-> log, stats |-> stats,
   file |-> file, file0 |-> file0]

\* the remote store as it was before the run: the worlds list the feed
\* documents first and the one document of Later last
Restored ==
  [id \in DOMAIN server |->
     [server[id] EXCEPT !.location = IF id = Len(server) THEN "later" ELSE "feed"]]

\* the program is started once more with the same flags on the same remote
\* state, CACHE_FILE now holding something else
Rerun ==
  /\ pc \in {"exit0", "exit1"}
  /\ run = 1
  /\ run' = run + 1
  /\ prev' = LeftAll
  /\ \E f \in CacheFiles \ {file0} :
       /\ file' = f
       /\ file0' = f
       /\ cache' = loadCache(f, noCache)
  /\ server' = Restored
  /\ stats' = InitStats
  /\ archived' = 0
  /\ pc' = "main"
  /\ phase' = "main"
  /\ location' = "none"
  /\ maxDocs' = None
  /\ documents' = <<>>
  /\ cursor' = None
  /\ idx' = 1
  /\ req' = <<>>
  /\ attempt' = <<>>
  /\ log' = <<>>
  /\ handled' = <<>>
  /\ UNCHANGED <<dryRun, noCache, archiveLater, limit, sinceDays, order>>

\* runs with --no-cache
NoCacheFlags ==
  [dryRun : BOOLEAN, noCache : {TRUE}, archiveLater : BOOLEAN,
   limit : {None}, sinceDays : SinceValues]

\* and, for comparison, the plain live run, which does read the file
InitTwin == InitWith(ClassifyWorlds, CacheFiles, NoCacheFlags \cup LiveFlags)

NextTwin == OneRun \/ Rerun

SpecTwin == InitTwin /\ [][NextTwin]_vars

(* ------------------------------------------------------------------ *)
(* Runs to their end                                                   *)
(* ------------------------------------------------------------------ *)
\* fetch() is answered 429 once more, beyond the answers the retry record
\* holds: the record keeps the latest Max429 exchanges (apiRequest itself
\* keeps none and has no cap)
RateLimitedOn ==
  /\ pc = "api"
  /\ Count(attempt, Is429) = Max429
  /\ \E h \in RetryAfterHeaders :
       attempt' = SubSeq(attempt, 3, Len(attempt)) \o
                    <<ReqEv(req, 429, h), DelayEv(RetryAfterMs(h))>>
  /\ UNCHANGED <<flags, file, cache, stats, archived, pc, phase, fetchVars,
                 documents, idx, req, log, server, order, handled, run, prev>>

\* a server that never gives another answer than 429
NeverAnswered == FALSE

\* fetch() is answered with something else than 429
Answered ==
  \/ ApiError
  \/ FetchMore
  \/ FeedFetched
  \/ FeedPatched
  \/ ArchiveFetched
  \/ ArchivePatched

NextLive == OneRun \/ RateLimitedOn

\* the event loop keeps running the program, and the server does not answer
\* one request with 429 forever
SpecLive == Init /\ [][NextLive]_vars /\ WF_vars(NextLive) /\ WF_vars(Answered)

(* ------------------------------------------------------------------ *)
(* Successful runs, again and again                                    *)
(* ------------------------------------------------------------------ *)
\* after a successful run the scheduler starts the program again, with the
\* same flags, on the remote state and the cache file that run left
Again ==
  /\ pc = "exit0"
  /\ file0' = file
  /\ cache' = loadCache(file, noCache)
  /\ stats' = InitStats
  /\ archived' = 0
  /\ pc' = "main"
  /\ phase' = "main"
  /\ location' = "none"
  /\ maxDocs' = None
  /\ documents' = <<>>
  /\ cursor' = None
  /\ idx' = 1
  /\ req' = <<>>
  /\ attempt' = <<>>
  /\ log' = <<>>
  /\ handled' = <<>>
  /\ UNCHANGED <<dryRun, noCache, archiveLater, limit, sinceDays, file, server, order,
                 run, prev>>

\* live runs that persist the cache, with and without --limit and --since
PollFlags ==
  [dryRun : {FALSE}, noCache : {FALSE}, archiveLater : {FALSE},
   limit : {None, Some(1)}, sinceDays : SinceValues]

InitPoll == InitWith(ClassifyWorlds, {MissingFile}, PollFlags)

\* every request is answered 2xx in the end: successful runs only
NextPoll ==
  \/ MainFeed
  \/ RateLimited
  \/ FetchMore
  \/ FeedFetched
  \/ FeedTooOld
  \/ FeedCached
  \/ FeedNoSummary
  \/ FeedNoMarker
  \/ FeedPromoteLive
  \/ FeedPatched
  \/ Again

SpecPoll == InitPoll /\ [][NextPoll]_vars /\ WF_vars(NextPoll)

(* ------------------------------------------------------------------ *)
(* Vocabulary of the properties                                        *)
(* ------------------------------------------------------------------ *)
IsRequest(e) == e.ev = "req"
IsUpdate(e) == e.ev = "req" /\ e.endpoint[1] = "update"
IsErrorAnswer(e) == e.ev = "req" /\ e.status # 429 /\ (e.status < 200 \/ e.status > 299)

\* the events logged while handled entry h was being handled
EventsOf(h) == SubSeq(log, h.logFrom + 1, h.logTo)

NoSummary(doc) == doc.summary = None \/ doc.summary = Some(<<>>)
MarkerIn(str) == \E i \in 1..Len(str) - 1 : str[i] = "#" /\ str[i + 1] = "R"
Marked(doc) ==
  \/ doc.summary # None /\ MarkerIn(Val(doc.summary))
  \/ doc.notes # None /\ MarkerIn(Val(doc.notes))
OutsideWindow(doc) ==
  /\ sinceDays \notin {None, Some(0)}
  /\ \A d \in doc.age : d > Val(sinceDays)

(* ------------------------------------------------------------------ *)
(* C2                                                                  *)
(* ------------------------------------------------------------------ *)
\* C2: handling a document whose summary is absent or empty leaves the cache
\* as it was (no entry is written for it), whatever its notes contain.
C2_NoSummaryNoCacheWrite ==
  \A i \in DOMAIN handled :
    NoSummary(handled[i].doc) =>
      /\ handled[i].after = handled[i].before
      /\ (i = Len(handled) => cache.processed = handled[i].before)

\* a document without summary whose notes carry the marker has been handled
\* while it was inside the age window and not cached
C2_Witness ==
  \E i \in DOMAIN handled :
    /\ handled[i].doc.summary = None
    /\ handled[i].doc.notes = Some(READ_MARKER)
    /\ handled[i].doc.id \notin DOMAIN handled[i].before
    /\ handled[i].outcome = "Unannotated"

(* ------------------------------------------------------------------ *)
(* C10                                                                 *)
(* ------------------------------------------------------------------ *)
\* the cache mapping m with the entry {promoted: p} for id
WithEntry(m, id, p) ==
  [k \in DOMAIN m \cup {id} |-> IF k = id THEN [promoted |-> p] ELSE m[k]]

\* the terminal state the priority order gives a document, the cache holding
\* the entries m when its turn comes
Terminal(doc, m) ==
  IF OutsideWindow(doc) THEN "TooOld"
  ELSE IF doc.id \in DOMAIN m THEN "Cached"
  ELSE IF NoSummary(doc) THEN "Unannotated"
  ELSE IF Marked(doc) THEN "Promoted"
  ELSE "NoMarker"

\* C10: every feed document the loop has handled is in exactly the terminal
\* state the priority order TooOld, Cached, Unannotated, Promoted, NoMarker
\* gives it; TooOld, Cached and Unannotated change neither the cache nor send
\* a request, NoMarker writes {promoted:false} and sends none, Promoted writes
\* {promoted:true} and is the only one with a relocation call (none in dry-run).
C10_DecisionSequence ==
  /\ pc = "feed_loop" => Len(handled) = idx - 1
  /\ \A i \in DOMAIN handled :
       LET h == handled[i]
           t == Terminal(h.doc, h.before)
       IN /\ h.doc = documents[i]
          /\ h.outcome = t
          /\ t \in {"TooOld", "Cached", "Unannotated"} =>
               h.after = h.before /\ EventsOf(h) = <<>>
          /\ t = "NoMarker" =>
               h.after = WithEntry(h.before, h.doc.id, FALSE) /\ EventsOf(h) = <<>>
          /\ t = "Promoted" =>
               /\ h.after = WithEntry(h.before, h.doc.id, TRUE)
               /\ SelectSeq(EventsOf(h), IsRequest) =
                    IF dryRun THEN <<>>
                    ELSE <<ReqEv(<<"update", h.doc.id, "later">>, 200, None)>>
  /\ pc = "api" /\ phase = "feed" /\ req[1] = "update" =>
       /\ Terminal(documents[idx], cache.processed) = "Promoted"
       /\ req = <<"update", documents[idx].id, "later">>

\* one run has handled a cached document, a document outside the window and
\* a promoted one
C10_Witness ==
  /\ pc = "exit0"
  /\ \E i, j, k \in DOMAIN handled :
       /\ handled[i].outcome = "Cached"
       /\ handled[j].outcome = "TooOld"
       /\ handled[k].outcome = "Promoted"

(* ------------------------------------------------------------------ *)
(* C4                                                                  *)
(* ------------------------------------------------------------------ *)
\* titles of the handled documents that ended in outcome o, in order
TitlesOf(o) ==
  LET hs == SelectSeq(handled, LAMBDA h : h.outcome = o)
  IN [i \in DOMAIN hs |-> <<"ID", hs[i].doc.id>>]

\* C4: in a dry run no PATCH is sent or pending and the cache file keeps the
\* contents it had at the start, while the in-memory cache and the statistics
\* record every handled document (promoted ones as {promoted:true}).
C4_DryRun ==
  dryRun =>
    /\ Count(log, IsUpdate) = 0
    /\ ~(pc = "api" /\ req[1] = "update")
    /\ file = file0
    /\ stats.promoted = TitlesOf("Promoted")
    /\ stats.skippedNoRead = TitlesOf("NoMarker")
    /\ stats.skippedNoSummary = TitlesOf("Unannotated")
    /\ \A i \in DOMAIN handled :
         /\ handled[i].outcome = "Promoted" =>
              /\ handled[i].doc.id \in DOMAIN cache.processed
              /\ cache.processed[handled[i].doc.id] = [promoted |-> TRUE]
         /\ handled[i].outcome = "NoMarker" =>
              /\ handled[i].doc.id \in DOMAIN cache.processed
              /\ cache.processed[handled[i].doc.id] = [promoted |-> FALSE]

\* a dry run with the archive sweep has ended: a document was promoted in
\* memory, the sweep counted a document, and the file was not written
C4_Witness ==
  /\ dryRun /\ archiveLater /\ ~noCache
  /\ pc = "exit0"
  /\ archived > 0
  /\ \E i \in DOMAIN handled : handled[i].outcome = "Promoted"
  /\ file.kind = "missing"

(* ------------------------------------------------------------------ *)
(* C5                                                                  *)
(* ------------------------------------------------------------------ *)
\* the requests for pages of partition loc that were answered so far
ListRequests(loc) ==
  SelectSeq(log, LAMBDA e : e.ev = "req" /\ e.endpoint[1] = "list" /\ e.endpoint[2] = loc)

\* the partition as the server lists it, and its number of pages
Entries(loc) == [i \in DOMAIN Listing(loc) |-> Snapshot(Listing(loc)[i])]
PagesOf(loc) ==
  IF Len(Entries(loc)) = 0 THEN 1 ELSE (Len(Entries(loc)) + PageSize - 1) \div PageSize

\* the documents among the entries of the first k pages, in server order
DocumentsOfPages(loc, k) ==
  SelectSeq(SubSeq(Entries(loc), 1, Min(k * PageSize, Len(Entries(loc)))),
            LAMBDA e : e.category \notin {"highlight", "note"})

\* the first page at which m documents are accumulated, the last page if none
StopPage(loc, m) ==
  CHOOSE k \in 1..PagesOf(loc) :
    /\ k = PagesOf(loc) \/ Len(DocumentsOfPages(loc, k)) >= m
    /\ \A j \in 1..(k - 1) : Len(DocumentsOfPages(loc, j)) < m

\* pages 1..k requested once each, in order, each answered 2xx
PagesRequested(loc, k) ==
  ListRequests(loc) =
    [j \in 1..k |-> ReqEv(<<"list", loc, IF j = 1 THEN None ELSE Some(j)>>, 200, None)]

\* the fetch of the feed has returned and no feed document has been moved
\* since: the answer to its last page is the last event logged
FeedJustFetched ==
  /\ phase = "feed"
  /\ pc \in {"feed_loop", "exit0"}
  /\ log # <<>>
  /\ log[Len(log)] = ReqEv(req, 200, None)
  /\ req[1] = "list"

\* C5: without maxDocs the fetch requests every page of the partition once, in
\* order, and returns all its documents (entries that are neither highlight
\* nor note) in server order; with maxDocs = M >= 1 it requests the pages up
\* to the first one at which M documents are accumulated and no page after
\* it, returns at least min(M, all documents) and fewer than M plus one page,
\* and processFeed keeps exactly the first M of them.
C5_Pagination ==
  /\ FeedJustFetched /\ limit = None =>
       /\ PagesRequested("feed", PagesOf("feed"))
       /\ documents = DocumentsOfPages("feed", PagesOf("feed"))
       /\ stats.total = Len(documents)
  /\ FeedJustFetched /\ limit # None /\ (\A m \in limit : m >= 1) =>
       LET m == Val(limit)
           k == StopPage("feed", m)
           returned == DocumentsOfPages("feed", k)
       IN /\ PagesRequested("feed", k)
          /\ stats.total = Len(returned)
          /\ stats.total >= Min(m, Len(DocumentsOfPages("feed", PagesOf("feed"))))
          /\ stats.total - m < PageSize
          /\ documents = SubSeq(returned, 1, Min(m, Len(returned)))
  /\ phase = "archive" /\ pc = "archive_loop" /\ idx = 1 =>
       /\ PagesRequested("later", PagesOf("later"))
       /\ documents = DocumentsOfPages("later", PagesOf("later"))

\* a feed of three pages fetched with --limit=2: the first page held one
\* document, the second page brought the count to three, the third page was
\* not requested and two documents were kept
C5_Witness ==
  /\ FeedJustFetched
  /\ limit = Some(2)
  /\ PagesOf("feed") = 3
  /\ Len(ListRequests("feed")) = 2
  /\ stats.total = 3
  /\ Len(documents) = 2

(* ------------------------------------------------------------------ *)
(* C9                                                                  *)
(* ------------------------------------------------------------------ *)
\* the documents counted in the outcome buckets of the statistics
Counted ==
  Len(stats.promoted) + Len(stats.skippedNoRead) + Len(stats.skippedNoSummary)
    + stats.skippedCached + stats.skippedTooOld

\* C9 as stated (taken for the values N >= 0, no count being at most a
\* negative N): with --limit=N at most N feed documents enter the decision
\* sequence in one run.
C9_LimitCaps ==
  limit # None /\ Val(limit) >= 0 => Counted <= Val(limit)

\* ids of the documents the feed listed when this run fetched it: those still
\* in the feed and those this run has moved to Later
FeedAtFetch ==
  SelectSeq(order, LAMBDA id :
    /\ server[id].category \notin {"highlight", "note"}
    /\ \/ server[id].location = "feed"
       \/ \E i \in DOMAIN log : log[i] = ReqEv(<<"update", id, "later">>, 200, None))

\* C9 amended: with --limit=N for an integer N >= 1, at most N feed documents
\* enter the decision sequence in one run, each counted in one bucket, and
\* they are the first documents of the feed in server order.
C9_PositiveLimitCaps ==
  limit # None /\ Val(limit) >= 1 =>
    /\ Counted <= Val(limit)
    /\ Counted = Len(handled)
    /\ Len(handled) <= Len(FeedAtFetch)
    /\ \A i \in DOMAIN handled : handled[i].doc.id = FeedAtFetch[i]

\* a run with --limit=2 has ended: three documents were fetched from a feed
\* of more, and the first two were handled
C9_Witness ==
  /\ limit = Some(2)
  /\ pc = "exit0"
  /\ stats.total = 3
  /\ Len(FeedAtFetch) > 3
  /\ Counted = 2

(* ------------------------------------------------------------------ *)
(* C6                                                                  *)
(* ------------------------------------------------------------------ *)
\* seconds a 429 with Retry-After header h asks for
SecondsAsked(h) ==
  CASE h = None -> 60
    [] h = Some(<<"5">>) -> 5
    [] h = Some(<<"0">>) -> 0

\* while a call is in progress, the n requests answered 429 so far were the
\* identical request, each followed by one wait of the seconds asked for
RetriesWellFormed ==
  /\ attempt # <<>> => pc = "api"
  /\ Len(attempt) = 2 * Count(attempt, Is429)
  /\ \A j \in 1..Count(attempt, Is429) :
       /\ attempt[2 * j - 1].ev = "req"
       /\ attempt[2 * j - 1].endpoint = req
       /\ attempt[2 * j - 1].status = 429
       /\ attempt[2 * j] = DelayEv(1000 * SecondsAsked(attempt[2 * j - 1].retryAfter))

\* a step of a call in progress: a 429 changes nothing but the retry record;
\* the answer that ends the call is exactly one more request, the same one,
\* and ends the run only when it is an error
RetryStep ==
  pc = "api" =>
    /\ attempt' # <<>> =>
         /\ Len(attempt') = Len(attempt) + 2
         /\ UNCHANGED <<req, pc, log, stats, cache, file, documents, idx, handled,
                        archived, server, cursor>>
    /\ attempt' = <<>> =>
         /\ Count(log', IsRequest) = Count(log, IsRequest) + 1
         /\ Len(log') > Len(log)
         /\ log'[Len(log) + 1].ev = "req"
         /\ log'[Len(log) + 1].endpoint = req
         /\ log'[Len(log) + 1].status # 429
         /\ pc' = "exit1" <=> IsErrorAnswer(log'[Len(log) + 1])
         /\ ~IsErrorAnswer(log'[Len(log) + 1]) => log'[Len(log) + 1].status = 200

\* C6: a request answered n times 429 and then 2xx is sent n+1 times,
\* identically, with one wait of Retry-After seconds (60 without the header)
\* before each retry; the 429 answers change neither statistics nor cache,
\* and the 2xx answer is handed on like a first answer.
C6_RateLimitRetry == []RetriesWellFormed /\ [][RetryStep]_vars

\* a relocation request has been answered 429 twice, without and with the
\* header: waits of 60 s and 5 s, and the third attempt is being sent
C6_Witness ==
  /\ pc = "api"
  /\ req[1] = "update"
  /\ Count(attempt, Is429) = 2
  /\ attempt[2].ms = 60000
  /\ attempt[4].ms = 5000

(* ------------------------------------------------------------------ *)
(* C7                                                                  *)
(* ------------------------------------------------------------------ *)
\* C7: a non-2xx answer other than 429 is the last thing the run does (no
\* further request, no further document) and the run exits with status 1;
\* a run without such an answer does not exit with status 1.
C7_ExitOneIffApiError ==
  /\ \A i \in DOMAIN log :
       IsErrorAnswer(log[i]) => i = Len(log) /\ pc = "exit1" /\ attempt = <<>>
  /\ pc = "exit1" => log # <<>> /\ IsErrorAnswer(log[Len(log)])

(* ------------------------------------------------------------------ *)
(* C8                                                                  *)
(* ------------------------------------------------------------------ *)
\* the cache file at process start is missing, unparseable, or parses to a
\* value without `processed`
UnusableFile == file0.kind \in {"missing", "garbage"} \/ ~file0.hasProcessed

\* ids the reconciliation has written to the cache in this run
WrittenThisRun ==
  {handled[i].doc.id : i \in {j \in DOMAIN handled : handled[j].after # handled[j].before}}

\* C8: with such a file the run goes as with an empty cache: a document is
\* Cached only through an entry written in this run, and the run does not
\* exit with status 1 unless a request was answered with an error.
C8_UnusableFileAsEmpty ==
  UnusableFile =>
    /\ \A i \in DOMAIN handled :
         handled[i].outcome = "Cached" => handled[i].doc.id \in WrittenThisRun
    /\ pc = "exit1" => \E i \in DOMAIN log : IsErrorAnswer(log[i])

(* ------------------------------------------------------------------ *)
(* C1                                                                  *)
(* ------------------------------------------------------------------ *)
\* the previous run ended successfully and this one persists its cache too
SecondOfTwoPersistedRuns ==
  /\ run > 1
  /\ prev.exit = "exit0"
  /\ ~dryRun
  /\ ~noCache

\* C1: after a successful run with the cache persisted, the reconciliation of
\* the next run neither sends nor prepares a relocation to Later for an id the
\* cache held at the end of that run, whatever the document now contains.
C1_NoSecondRelocation ==
  SecondOfTwoPersistedRuns =>
    /\ \A i \in DOMAIN log :
         IsUpdate(log[i]) /\ log[i].endpoint[3] = "later" =>
           log[i].endpoint[2] \notin DOMAIN prev.cache.processed
    /\ pc = "api" /\ req[1] = "update" /\ req[3] = "later" =>
         req[2] \notin DOMAIN prev.cache.processed

\* the second run has ended: it skipped as Cached a document that the first
\* run recorded as not promoted and that has carried the marker since
C1_Witness ==
  /\ SecondOfTwoPersistedRuns
  /\ pc = "exit0"
  /\ \E i \in DOMAIN handled, j \in DOMAIN prev.handled :
       /\ handled[i].doc.id = prev.handled[j].doc.id
       /\ prev.handled[j].outcome = "NoMarker"
       /\ ~Marked(prev.handled[j].doc)
       /\ Marked(handled[i].doc)
       /\ ~NoSummary(handled[i].doc)
       /\ handled[i].outcome = "Cached"

(* ------------------------------------------------------------------ *)
(* C3                                                                  *)
(* ------------------------------------------------------------------ *)
\* C3 as stated: a run that ends successfully has classified every feed
\* document without summary as skipped-no-summary.
C3_EverySummarylessSkipped ==
  pc = "exit0" /\ phase = "feed" =>
    \A id \in DOMAIN server :
      /\ server[id].location = "feed"
      /\ server[id].category = "article"
      /\ NoSummary(server[id])
      => \E i \in DOMAIN handled :
           handled[i].doc.id = id /\ handled[i].outcome = "Unannotated"

\* C3 amended: whenever the loop handles a feed document that is inside the
\* age window and not cached, then without summary it is skipped-no-summary
\* with no request and no cache entry, so that the next run does not find it
\* cached (the first time it meets it); and with a non-empty summary it is
\* Promoted or NoMarker and has its cache entry when its handling completes.
C3_RetryByOmission ==
  /\ \A i \in DOMAIN handled :
       LET h == handled[i]
       IN ~OutsideWindow(h.doc) /\ h.doc.id \notin DOMAIN h.before =>
            IF NoSummary(h.doc)
            THEN /\ h.outcome = "Unannotated"
                 /\ h.after = h.before
                 /\ EventsOf(h) = <<>>
                 /\ h.doc.id \notin DOMAIN cache.processed
                 /\ pc = "exit0" => h.doc.id \notin DOMAIN file.processed
            ELSE /\ h.outcome \in {"Promoted", "NoMarker"}
                 /\ h.doc.id \in DOMAIN h.after
                 /\ h.doc.id \in DOMAIN cache.processed
  /\ \A j \in DOMAIN prev.handled :
       prev.handled[j].outcome = "Unannotated" =>
         /\ pc = "main" => prev.handled[j].doc.id \notin DOMAIN cache.processed
         /\ \A i \in DOMAIN handled :
              /\ handled[i].doc.id = prev.handled[j].doc.id
              /\ \A k \in 1..(i - 1) : handled[k].doc.id # handled[i].doc.id
              => handled[i].outcome # "Cached"

\* a document that the previous run skipped for want of a summary has gained
\* one with the marker and this run has promoted and cached it
C3_Witness ==
  /\ run > 1
  /\ \E i \in DOMAIN handled, j \in DOMAIN prev.handled :
       /\ handled[i].doc.id = prev.handled[j].doc.id
       /\ prev.handled[j].outcome = "Unannotated"
       /\ handled[i].outcome = "Promoted"
       /\ cache.processed[handled[i].doc.id] = [promoted |-> TRUE]

(* ------------------------------------------------------------------ *)
(* C11                                                                 *)
(* ------------------------------------------------------------------ *)
IsPrefix(a, b) == Len(a) <= Len(b) /\ SubSeq(b, 1, Len(a)) = a

\* the length of the longest common prefix of two sequences
CommonPrefix(a, b) ==
  CHOOSE k \in 0..Min(Len(a), Len(b)) :
    /\ SubSeq(a, 1, k) = SubSeq(b, 1, k)
    /\ k < Min(Len(a), Len(b)) => a[k + 1] # b[k + 1]

\* the first place where two logs differ is a request, the same in both,
\* that the server answered differently
SplitByAnswer(a, b) ==
  LET k == CommonPrefix(a, b)
  IN /\ k < Min(Len(a), Len(b))
     /\ a[k + 1].ev = "req" /\ b[k + 1].ev = "req"
     /\ a[k + 1].endpoint = b[k + 1].endpoint
     /\ a[k + 1].status # b[k + 1].status

\* C11: with --no-cache the file keeps its contents, and of two runs that
\* differ only in those contents the second sends the requests of the first
\* as long as the server answers alike, with the same outcome for every
\* document, and ends with the same statistics, cache and exit status.
C11_NoCacheIgnoresFile ==
  noCache =>
    /\ file = file0
    /\ run = 2 =>
         /\ prev.file = prev.file0
         /\ IsPrefix(log, prev.log) \/ SplitByAnswer(log, prev.log)
         /\ IsPrefix(log, prev.log) => IsPrefix(handled, prev.handled)
         /\ log = prev.log /\ pc \in {"exit0", "exit1"} =>
              /\ pc = prev.exit
              /\ handled = prev.handled
              /\ stats = prev.stats
              /\ cache = prev.cache

\* a live run without file and then one over a file that lists document 1
\* have both ended after the same requests, and both promoted document 1
C11_Witness ==
  /\ noCache /\ ~dryRun
  /\ run = 2
  /\ pc = "exit0"
  /\ prev.file0 = MissingFile
  /\ file0 = JsonFile(CachePut(EmptyCache, 1, FALSE))
  /\ log = prev.log
  /\ Count(log, IsUpdate) > 0
  /\ handled[1].doc.id = 1
  /\ handled[1].outcome = "Promoted"

(* ------------------------------------------------------------------ *)
(* C12                                                                 *)
(* ------------------------------------------------------------------ *)
\* the run persists its cache: neither --dry-run nor --no-cache
Persisting == ~dryRun /\ ~noCache

\* C12 as stated (taken for runs without --limit): a persisting run that has
\* ended successfully has left the file equal to the in-memory cache.
C12_FileEqualsCacheAtExit ==
  Persisting /\ limit = None /\ pc = "exit0" => file = JsonFile(cache)

\* until the run ends the file is as at start, and so it is after an abort;
\* after the successful end of a persisting run that handled a document the
\* file is the in-memory cache; a run that found no document to process has
\* not written the file
FileAtEnd ==
  /\ pc # "exit0" => file = file0
  /\ pc = "exit0" /\ Persisting /\ handled # <<>> => file = JsonFile(cache)
  /\ pc = "exit0" /\ handled = <<>> => file = file0
  /\ ~Persisting => file = file0

\* the file changes only in the step that handles the last document of the
\* list and ends the run
FileWrittenAtLast ==
  file' # file =>
    /\ pc = "feed_loop" \/ (pc = "api" /\ phase = "feed" /\ req[1] = "update")
    /\ idx = Len(documents)
    /\ Len(handled') = Len(documents)
    /\ pc' = "exit0"

\* C12 amended: the file is written at most once per run, by the step that
\* completes the last feed document; an aborted run leaves it as at start,
\* a successful persisting run that handled at least one document leaves it
\* equal to the in-memory cache, and a run with no document to process
\* leaves it unwritten.
C12_PersistedOnceAtEnd == []FileAtEnd /\ [][FileWrittenAtLast]_vars

\* a persisting run has promoted a document and then aborted on an error
\* answer: the promotion is in memory and not in the file
C12_Witness ==
  /\ Persisting
  /\ pc = "exit1"
  /\ \E i \in DOMAIN handled :
       /\ handled[i].outcome = "Promoted"
       /\ handled[i].doc.id \in DOMAIN cache.processed
       /\ handled[i].doc.id \notin DOMAIN file.processed
  /\ IsErrorAnswer(log[Len(log)])
  /\ file = file0

(* ------------------------------------------------------------------ *)
(* C13                                                                 *)
(* ------------------------------------------------------------------ *)
\* the PATCH moving id to Later was sent and answered 2xx
PatchedToLater(id) ==
  \E i \in DOMAIN log : log[i] = ReqEv(<<"update", id, "later">>, 200, None)

InPromotedList(id) == \E i \in DOMAIN stats.promoted : stats.promoted[i] = <<"ID", id>>

\* the cache holds {promoted:true} for id and the file at start did not
RecordedPromoted(id) ==
  /\ cache.hasProcessed
  /\ id \in DOMAIN cache.processed
  /\ cache.processed[id].promoted
  /\ id \notin DOMAIN file0.processed

\* in a live run a document is in the promoted list or newly cached as
\* promoted only when its PATCH was answered 2xx; while the PATCH is pending
\* or after it failed the document is in neither
RecordedOnlyAfterPatch ==
  ~dryRun =>
    /\ \A id \in DOMAIN server :
         InPromotedList(id) \/ RecordedPromoted(id) => PatchedToLater(id)
    /\ pc = "api" /\ phase = "feed" /\ req[1] = "update" =>
         ~InPromotedList(req[2]) /\ req[2] \notin DOMAIN cache.processed
    /\ \A i \in DOMAIN log :
         IsErrorAnswer(log[i]) /\ log[i].endpoint[1] = "update" /\ log[i].endpoint[3] = "later" =>
           ~InPromotedList(log[i].endpoint[2]) /\ log[i].endpoint[2] \notin DOMAIN cache.processed

\* in a live run the step that appends to the promoted list, or writes a
\* {promoted:true} entry, is the one in which the PATCH for the current
\* document returns 2xx; it does both
RecordStepOfPatch ==
  ~dryRun /\ (stats'.promoted # stats.promoted \/
              (cache' # cache /\ \E id \in DOMAIN cache'.processed :
                 id \notin DOMAIN cache.processed /\ cache'.processed[id].promoted)) =>
    /\ pc = "api" /\ req = <<"update", documents[idx].id, "later">>
    /\ log' = Append(log, ReqEv(req, 200, None))
    /\ stats'.promoted = Append(stats.promoted, <<"ID", req[2]>>)
    /\ cache'.processed = WithEntry(cache.processed, req[2], TRUE)

\* C13: in a live run the PATCH to 'later' for a Promoted document has been
\* sent and answered 2xx before its title is in the promoted list and before
\* its cache entry {promoted:true} exists; if the PATCH fails, neither holds it.
C13_PatchBeforeRecord == []RecordedOnlyAfterPatch /\ [][RecordStepOfPatch]_vars

\* a live run has promoted and recorded one document and then aborted on the
\* failed PATCH of a second one, which is recorded nowhere
C13_Witness ==
  /\ ~dryRun
  /\ pc = "exit1"
  /\ Len(stats.promoted) = 1
  /\ log[Len(log)].endpoint[1] = "update"
  /\ log[Len(log)].endpoint[3] = "later"
  /\ IsErrorAnswer(log[Len(log)])
  /\ ~InPromotedList(log[Len(log)].endpoint[2])
  /\ log[Len(log)].endpoint[2] \notin DOMAIN cache.processed

(* ------------------------------------------------------------------ *)
(* C14                                                                 *)
(* ------------------------------------------------------------------ *)
\* C14: a request that was answered is followed by an awaited delay before
\* the next request is sent, also across the end of the archive sweep.
C14_DelayBetweenRequests ==
  /\ \A i \in 1..(Len(log) - 1) : log[i].ev = "req" => log[i + 1].ev = "delay"
  /\ pc = "api" /\ log # <<>> => log[Len(log)].ev = "delay"

(* ------------------------------------------------------------------ *)
(* C15                                                                 *)
(* ------------------------------------------------------------------ *)
\* ids of the documents the sweep's fetch of Later returns, in order: those
\* this run has archived and those of Later that it has not put there itself
LaterAtFetch ==
  SelectSeq(order, LAMBDA id :
    /\ server[id].category \notin {"highlight", "note"}
    /\ \/ server[id].location = "archive"
       \/ server[id].location = "later" /\ ~PatchedToLater(id))

ArchivePatches ==
  SelectSeq(log, LAMBDA e : e.ev = "req" /\ e.endpoint[1] = "update" /\ e.endpoint[3] = "archive")

\* one PATCH to 'archive', answered 2xx, per document of ids, in that order
PatchesFor(ids) ==
  [i \in DOMAIN ids |-> ReqEv(<<"update", ids[i], "archive">>, 200, None)]

\* in a live run with the sweep: while it lasts the PATCHes sent are those of
\* the first documents fetched from Later, in order, all answered 2xx unless
\* the last one has ended the run; once the feed is being
\* listed every document of Later has had exactly one, and none follows
SweepComplete ==
  archiveLater /\ ~dryRun =>
    /\ phase = "archive" =>
         /\ Len(ArchivePatches) <= Len(LaterAtFetch)
         /\ \A i \in DOMAIN ArchivePatches :
              /\ ArchivePatches[i].endpoint = <<"update", LaterAtFetch[i], "archive">>
              /\ ArchivePatches[i].status = 200 \/ (i = Len(ArchivePatches) /\ pc = "exit1")
    /\ phase = "feed" => ArchivePatches = PatchesFor(LaterAtFetch)
    /\ \A i, j \in DOMAIN log :
         /\ log[i].ev = "req" /\ log[i].endpoint[1] = "list" /\ log[i].endpoint[2] = "feed"
         /\ IsUpdate(log[j]) /\ log[j].endpoint[3] = "archive"
         => j < i

\* a step of the sweep changes neither cache, file, statistics nor the
\* documents handled
SweepStep ==
  phase = "archive" \/ phase' = "archive" =>
    UNCHANGED <<cache, file, stats, handled>>

\* C15: a live run with --archive-later sends exactly one PATCH to 'archive'
\* for every document the full fetch of Later returned, in fetched order and
\* before the first list request for the feed, whatever --limit, --since and
\* the cache say; the sweep leaves cache and statistics alone.
C15_SweepArchivesAll == []SweepComplete /\ [][SweepStep]_vars

\* a live run with --limit=1 and --since=7 over a cache that lists the first
\* document of Later has archived the three documents of Later, the cached
\* and the old one included, and is now listing the feed
C15_Witness ==
  /\ archiveLater /\ ~dryRun
  /\ limit = Some(1) /\ sinceDays = Some(7)
  /\ LaterAtFetch = <<2, 4, 5>>
  /\ 2 \in DOMAIN cache.processed
  /\ phase = "feed"
  /\ pc = "api"
  /\ ArchivePatches = PatchesFor(<<2, 4, 5>>)

(* ------------------------------------------------------------------ *)
(* C16                                                                 *)
(* ------------------------------------------------------------------ *)
\* every entry of the mapping m is in the mapping n with the same value
Keeps(m, n) == \A id \in DOMAIN m : id \in DOMAIN n /\ n[id] = m[id]

\* no step removes or changes an entry of the file, and no step of a run an
\* entry of the cache in memory
CacheGrowsStep ==
  /\ Keeps(file.processed, file'.processed)
  /\ run' = run => Keeps(cache.processed, cache'.processed)

\* the process that follows a successful persisting run starts from all the
\* entries that run had in memory, and keeps them
CarriedOver ==
  run > 1 /\ prev.exit = "exit0" /\ Persisting /\ prev.handled # <<>> =>
    /\ Keeps(prev.cache.processed, file0.processed)
    /\ Keeps(prev.cache.processed, cache.processed)
    /\ Keeps(prev.cache.processed, file.processed)

\* C16: the cache only grows: no entry of the in-memory cache is removed or
\* changed during a run, none of the file ever, and what a successful
\* persisting run held is held by the next one, also when an id is listed
\* twice or the document has gained the marker since it was cached.
C16_CacheOnlyGrows == []CarriedOver /\ [][CacheGrowsStep]_vars

\* the second run has ended: the first document, cached as not promoted by
\* the first run and marked since, was listed twice and skipped twice, and
\* its entry is unchanged in memory and in the file
C16_Witness ==
  /\ run = 2
  /\ pc = "exit0"
  /\ Persisting
  /\ \E i, j \in DOMAIN handled :
       /\ i < j
       /\ handled[i].doc.id = handled[j].doc.id
       /\ Marked(handled[i].doc) /\ ~NoSummary(handled[i].doc)
       /\ handled[i].outcome = "Cached" /\ handled[j].outcome = "Cached"
       /\ prev.cache.processed[handled[i].doc.id] = [promoted |-> FALSE]
       /\ cache.processed[handled[i].doc.id] = [promoted |-> FALSE]
       /\ file.processed[handled[i].doc.id] = [promoted |-> FALSE]

(* ------------------------------------------------------------------ *)
(* C17                                                                 *)
(* ------------------------------------------------------------------ *)
\* C17: when the server answers no request with 429 forever (and its list has
\* finitely many pages), every run ends, with exit status 0 or 1.
C17_Terminates == <>(pc \in {"exit0", "exit1"})

\* a live run with the sweep over a feed of several pages has ended with
\* status 0 after relocating documents
C17_Witness ==
  /\ pc = "exit0"
  /\ archiveLater /\ ~dryRun
  /\ Len(ListRequests("feed")) > 1
  /\ Count(log, IsUpdate) > 1

(* ------------------------------------------------------------------ *)
(* C18                                                                 *)
(* ------------------------------------------------------------------ *)
\* a feed document waiting for promotion: a non-empty summary, the marker,
\* inside the age window, and no entry in the persisted cache
Eligible(id) ==
  /\ server[id].location = "feed"
  /\ server[id].category \notin {"highlight", "note"}
  /\ ~NoSummary(server[id])
  /\ Marked(server[id])
  /\ ~OutsideWindow(server[id])
  /\ id \notin DOMAIN file.processed

\* every document listed before id has a summary and is inside the window,
\* so that a run which handles it caches it
HeadSettles(id) ==
  \A j \in 1..(id - 1) : ~NoSummary(server[j]) /\ ~OutsideWindow(server[j])

\* C18: under repeated successful live runs with the cache persisted and the
\* same flags, whatever --limit is, every document waiting for promotion is
\* relocated to Later by some run; the documents before it, once cached, do
\* not keep it from being processed.
C18_EventuallyPromoted ==
  \A id \in 1..NumFeed :
    (Eligible(id) /\ HeadSettles(id)) ~> (server[id].location = "later")

(* ------------------------------------------------------------------ *)
(* C19                                                                 *)
(* ------------------------------------------------------------------ *)
\* C19 as stated (taken for runs without --limit or with a positive one): at
\* the successful end of a run stats.total is the sum of the outcome buckets.
C19_TotalIsSumOfBuckets ==
  pc = "exit0" /\ (limit = None \/ Val(limit) >= 1) => stats.total = Counted

OutcomeCount(o) == Len(SelectSeq(handled, LAMBDA h : h.outcome = o))

\* the number of documents left of n fetched ones by --limit
KeptOf(n) ==
  IF limit = None \/ limit = Some(0) THEN n
  ELSE IF Val(limit) >= 1 THEN Min(n, Val(limit))
  ELSE Max(n + Val(limit), 0)

\* C19 amended: every handled document is counted in exactly one bucket, the
\* one of its outcome; at the successful end of a run the buckets add up to
\* the number of documents handled, which is stats.total (the number
\* fetched) without --limit and min(stats.total, N) with --limit=N, N >= 1.
C19_BucketsAccount ==
  /\ stats.promoted = TitlesOf("Promoted")
  /\ stats.skippedNoRead = TitlesOf("NoMarker")
  /\ stats.skippedNoSummary = TitlesOf("Unannotated")
  /\ stats.skippedCached = OutcomeCount("Cached")
  /\ stats.skippedTooOld = OutcomeCount("TooOld")
  /\ Counted = Len(handled)
  /\ pc = "exit0" =>
       /\ Len(handled) = Len(documents)
       /\ Counted = KeptOf(stats.total)
       /\ stats.total - Counted < PageSize \/ limit = None \/ Val(limit) < 1

\* a run with --limit=1 and --since=7 has ended: two documents were fetched
\* and one was handled, counted as too old
C19_Witness ==
  /\ pc = "exit0"
  /\ limit = Some(1) /\ sinceDays = Some(7)
  /\ stats.total = 2
  /\ stats.skippedTooOld = 1
  /\ Counted = 1

(* ------------------------------------------------------------------ *)
(* C20                                                                 *)
(* ------------------------------------------------------------------ *)
\* the PATCHes to 'later' for id that were answered, and its titles in the
\* promoted list
RelocationsOf(id) ==
  SelectSeq(log, LAMBDA e : e.ev = "req" /\ e.endpoint = <<"update", id, "later">>)
PromotedTitlesOf(id) == SelectSeq(stats.promoted, LAMBDA t : t = <<"ID", id>>)

\* C20: in one run at most one relocation to 'later' is made per document
\* id, and its title is appended to the promoted list at most once, with any
\* of --dry-run and --no-cache, also when the list returns the id twice.
C20_OnePromotionPerId ==
  \A id \in DOMAIN server :
    /\ Len(RelocationsOf(id)) <= 1
    /\ Len(PromotedTitlesOf(id)) <= 1
    /\ pc = "api" /\ req = <<"update", id, "later">> =>
         RelocationsOf(id) = <<>> /\ PromotedTitlesOf(id) = <<>>
    /\ dryRun => RelocationsOf(id) = <<>>

\* a live run with --no-cache has met a marked document twice in its list:
\* promoted the first time, skipped as cached the second time
C20_Witness ==
  /\ noCache /\ ~dryRun
  /\ \E i, j \in DOMAIN handled :
       /\ i < j
       /\ handled[i].doc.id = handled[j].doc.id
       /\ handled[i].outcome = "Promoted"
       /\ handled[j].outcome = "Cached"
       /\ Len(RelocationsOf(handled[i].doc.id)) = 1

====
